---- MODULE Spec2Model ----
(***************************************************************************)
(* OneClickLights (src/init.py): the catalog scanner                       *)
(* get_light_setups_data, the panel LightManagerPanel.draw and the         *)
(* operator ApplyLightSetupOperator.execute, over an abstract file system  *)
(* (the light_setups and previews directories) and an abstract host        *)
(* document (bpy.data.lights, bpy.data.collections, the scene's root       *)
(* collection, the scene property one_click_lights_current_setup).         *)
(*                                                                         *)
(* Strings the code computes with are sequences of one-character strings,  *)
(* so that endswith, os.path.splitext and + are computed, not assumed.     *)
(* A path os.path.join(dir, filename) is the pair <<dir, filename>>.        *)
(***************************************************************************)
EXTENDS Integers, Sequences, FiniteSets, TLC

\* ------------------------------------------------------------------ bounds
MaxEntries == 3
MaxLights == 2
MaxApplies == 2
MaxImages == 1

\* --------------------------------------------------------- string literals
BlendExt == <<".", "b", "l", "e", "n", "d">>
JpgExt == <<".", "j", "p", "g">>
LightsSuffix == <<"_", "l", "i", "g", "h", "t", "s">>
EmptyStr == <<>>
LightSetupsDir == "light_setups"
PreviewsDir == "previews"

\* Directory entries the scanner is run on: a.blend, a.b.blend, .blend,
\* .blend.blend, a.jpg (files) and d.blend (a directory).
EntryPool ==
    { [filename |-> <<"a">> \o BlendExt, kind |-> "file"],
      [filename |-> <<"a", ".", "b">> \o BlendExt, kind |-> "file"],
      [filename |-> BlendExt, kind |-> "file"],
      [filename |-> BlendExt \o BlendExt, kind |-> "file"],
      [filename |-> <<"a">> \o JpgExt, kind |-> "file"],
      [filename |-> <<"d">> \o BlendExt, kind |-> "dir"] }

\* Directory entries the panel and the operator are run on: a.blend and
\* b.blend.
SetupPool ==
    { [filename |-> <<"a">> \o BlendExt, kind |-> "file"],
      [filename |-> <<"b">> \o BlendExt, kind |-> "file"] }

\* Files the previews directory may hold.
PreviewPool == { <<"a">> \o JpgExt }

\* Setup names the chooser may write and a caller may pass: "", a and b.
NamePool == { EmptyStr, <<"a">>, <<"b">> }

VARIABLES
    dirState,       \* light_setups path: "absent", "dir" or "notdir"
    entries,        \* entries of the light_setups directory
    previews,       \* filenames present in the previews directory
    current_setup,  \* scene.one_click_lights_current_setup
    lights,         \* bpy.data.lights: the light datablocks loaded so far
    collections,    \* bpy.data.collections, in creation order
    root,           \* scene.collection.children: indices into collections
    nImages,        \* bpy.data.images loaded by the panel
    panel,          \* what the last draw of the panel laid out
    nExec,          \* number of execute invocations so far
    tally,          \* per setup name: executes that ended FINISHED / failed in attach
    last,           \* the last execute invocation: inputs, steps, report, result
    scanned         \* the last direct call of get_light_setups_data

vars == <<dirState, entries, previews, current_setup, lights, collections,
          root, nImages, panel, nExec, tally, last, scanned>>

\* ------------------------------------------------------- python functions
\* str.endswith
EndsWith(s, suffix) ==
    /\ Len(s) >= Len(suffix)
    /\ SubSeq(s, Len(s) - Len(suffix) + 1, Len(s)) = suffix

\* index of the last "." of p, 0 when there is none (str.rfind)
LastDot(p) ==
    LET dots == { i \in 1..Len(p) : p[i] = "." }
    IN  IF dots = {} THEN 0 ELSE CHOOSE i \in dots : \A j \in dots : j <= i

\* os.path.splitext(p)[0] for a p without separators: split at the last
\* dot unless only dots precede it.
SplitextRoot(p) ==
    LET d == LastDot(p)
    IN  IF d > 0 /\ \E j \in 1..(d - 1) : p[j] # "."
        THEN SubSeq(p, 1, d - 1)
        ELSE p

\* os.path.join(dir, filename)
Join(dir, filename) == <<dir, filename>>

\* the dictionary appended for one filename
MakeEntry(filename) ==
    LET name == SplitextRoot(filename)
    IN  [name |-> name,
         blend_path |-> Join(LightSetupsDir, filename),
         preview_path |-> Join(PreviewsDir, name \o JpgExt)]

\* the filter of the listing loop
IsSetupFile(filename) == EndsWith(filename, BlendExt)

\* the loop over os.listdir's result
RECURSIVE CollectSetups(_)
CollectSetups(listing) ==
    IF listing = <<>> THEN <<>>
    ELSE LET rest == CollectSetups(Tail(listing))
         IN  IF IsSetupFile(Head(listing))
             THEN <<MakeEntry(Head(listing))>> \o rest
             ELSE rest

\* the orders os.listdir may return the names of the directory in
Listings(es) ==
    LET names == { e.filename : e \in es }
    IN  { l \in [1..Cardinality(names) -> names] :
            \A i, j \in 1..Cardinality(names) : l[i] = l[j] => i = j }

\* get_light_setups_data: fault names the file-system call that fails, if any
get_light_setups_data(ds, listing, fault) ==
    IF ds = "absent"
    THEN IF fault = "makedirs"
         THEN [raised |-> TRUE, failed |-> TRUE, value |-> <<>>, dir |-> ds]
         ELSE [raised |-> FALSE, failed |-> FALSE, value |-> <<>>, dir |-> "dir"]
    ELSE IF ds = "notdir" \/ fault = "listdir"
         THEN [raised |-> FALSE, failed |-> TRUE, value |-> <<>>, dir |-> ds]
         ELSE [raised |-> FALSE, failed |-> FALSE,
               value |-> CollectSetups(listing), dir |-> ds]

\* FindSetup without the comparison of names: the first entry, if any
FindSetupAny(light_setups, name) ==
    IF light_setups = <<>> THEN 0 ELSE 1

\* the linear search of execute and of draw: index of the first entry
\* named name, 0 when there is none
FindSetup(light_setups, name) ==
    LET hits == { i \in 1..Len(light_setups) : light_setups[i].name = name }
    IN  IF hits = {} THEN 0 ELSE CHOOSE i \in hits : \A j \in hits : i <= j

\* ------------------------------------------------------------ host document
\* the document as execute sees it
Doc == [lights |-> lights, collections |-> collections, root |-> root]

Range(f) == { f[i] : i \in DOMAIN f }

\* ContainerName without the suffix
ContainerNameBare(name) == name

\* the name execute gives the collection it creates
ContainerName(name) == name \o LightsSuffix

\* bpy.data.libraries.load with data_to.lights = data_from.lights: the n
\* lights of the file at filepath, as new datablocks of load number id
LoadedLights(id, filepath, n) ==
    [i \in 1..n |-> [load |-> id, path |-> filepath, i |-> i]]

\* CollectionsNew that returns the collection already carrying the name,
\* when there is one
CollectionsNewReuse(colls, name) ==
    LET same == { i \in 1..Len(colls) : colls[i].name = name }
    IN  IF same = {}
        THEN [colls |-> Append(colls, [name |-> name, objects |-> <<>>]),
              idx |-> Len(colls) + 1]
        ELSE [colls |-> colls, idx |-> CHOOSE i \in same : TRUE]

\* bpy.data.collections.new(name=...): a new, empty collection under the
\* name asked for; idx is its place in bpy.data.collections
CollectionsNew(colls, name) ==
    [colls |-> Append(colls, [name |-> name, objects |-> <<>>]),
     idx |-> Len(colls) + 1]

\* LinkLights that goes on after the link that raises
LinkLightsSkipFailed(colls, idx, loaded, failAt) ==
    LET kept == { i \in 1..Len(loaded) : i # failAt }
        RECURSIVE Pick(_)
        Pick(i) == IF i > Len(loaded) THEN <<>>
                   ELSE (IF i \in kept THEN <<loaded[i]>> ELSE <<>>) \o Pick(i + 1)
    IN  [colls EXCEPT ![idx].objects = @ \o Pick(1)]

\* the loop light_collection.objects.link(light): links the lights in
\* order and stops at the first link that raises (failAt, 0 for none)
LinkLights(colls, idx, loaded, failAt) ==
    LET k == IF failAt \in 1..Len(loaded) THEN failAt - 1 ELSE Len(loaded)
    IN  [colls EXCEPT ![idx].objects = @ \o SubSeq(loaded, 1, k)]

\* Merge with the collection created and linked under the root before the
\* load
MergeCreateFirst(doc, id, setup, n, fault) ==
    IF fault.at = "new"
    THEN [doc |-> doc, stage |-> "new_failed", loaded |-> <<>>, coll |-> 0]
    ELSE
    LET c == CollectionsNew(doc.collections, ContainerName(setup.name))
        d1 == [doc EXCEPT !.collections = c.colls]
    IN  IF fault.at = "link"
        THEN [doc |-> d1, stage |-> "link_failed", loaded |-> <<>>,
              coll |-> c.idx]
        ELSE
        LET d2 == [d1 EXCEPT !.root = Append(@, c.idx)]
        IN  IF fault.at = "load"
            THEN [doc |-> d2, stage |-> "load_failed", loaded |-> <<>>,
                  coll |-> c.idx]
            ELSE
            LET loaded == LoadedLights(id, setup.blend_path, n)
                d3 == [d2 EXCEPT !.lights = @ \cup Range(loaded)]
                d4 == [d3 EXCEPT !.collections =
                          LinkLights(@, c.idx, loaded,
                                     IF fault.at = "attach" THEN fault.i ELSE 0)]
            IN  [doc |-> d4,
                 stage |-> IF fault.at = "attach" /\ fault.i \in 1..n
                           THEN "attach_failed" ELSE "done",
                 loaded |-> loaded, coll |-> c.idx]

\* the try block of execute for the entry found: load, then create, then
\* link under the scene's root, then link every light. fault names the
\* host call that raises, if any.
Merge(doc, id, setup, n, fault) ==
    IF fault.at = "load"
    THEN [doc |-> doc, stage |-> "load_failed", loaded |-> <<>>, coll |-> 0]
    ELSE
    LET loaded == LoadedLights(id, setup.blend_path, n)
        d1 == [doc EXCEPT !.lights = @ \cup Range(loaded)]
    IN  IF fault.at = "new"
        THEN [doc |-> d1, stage |-> "new_failed", loaded |-> loaded, coll |-> 0]
        ELSE
        LET c == CollectionsNew(d1.collections, ContainerName(setup.name))
            d2 == [d1 EXCEPT !.collections = c.colls]
        IN  IF fault.at = "link"
            THEN [doc |-> d2, stage |-> "link_failed", loaded |-> loaded,
                  coll |-> c.idx]
            ELSE
            LET d3 == [d2 EXCEPT !.root = Append(@, c.idx)]
                d4 == [d3 EXCEPT !.collections =
                          LinkLights(@, c.idx, loaded,
                                     IF fault.at = "attach" THEN fault.i ELSE 0)]
            IN  [doc |-> d4,
                 stage |-> IF fault.at = "attach" /\ fault.i \in 1..n
                           THEN "attach_failed" ELSE "done",
                 loaded |-> loaded, coll |-> c.idx]

\* self.report(...) and the value execute returns, per way out of execute
NoReport == [level |-> "NONE", text |-> "", arg |-> EmptyStr]

ReportOf(stage, name) ==
    IF stage = "done"
    THEN [level |-> "INFO", text |-> "Applied light setup: ", arg |-> name]
    ELSE IF stage = "not_found"
    THEN [level |-> "ERROR", text |-> "Light setup not found.", arg |-> EmptyStr]
    ELSE IF stage = "scan_raised"
    THEN NoReport
    ELSE [level |-> "ERROR", text |-> "Error applying light setup: ",
          arg |-> <<stage>>]

ResultOf(stage) ==
    IF stage = "done" THEN "FINISHED"
    ELSE IF stage = "scan_raised" THEN "RAISED"
    ELSE "CANCELLED"

\* the host calls of one execute that may raise, for a file of n lights
Faults(n) ==
    { [at |-> a, i |-> 0] :
        a \in {"none", "makedirs", "listdir", "load", "new", "link"} }
    \cup { [at |-> "attach", i |-> i] : i \in 1..n }

\* ------------------------------------------------------------------- init
NoScan ==
    [called |-> FALSE, dirBefore |-> "dir", raised |-> FALSE,
     failed |-> FALSE, value |-> <<>>]

NoExec ==
    [via |-> "none", name |-> EmptyStr, raised |-> FALSE, catalog |-> <<>>,
     selected |-> 0, fault |-> [at |-> "none", i |-> 0], stage |-> "none",
     loaded |-> <<>>, coll |-> 0, report |-> NoReport, result |-> "NONE"]

NoPanel == [raised |-> FALSE, preview |-> "none", applyShown |-> FALSE]

\* the host's state when the add-on is registered: an empty document, the
\* scene property at the default of a StringProperty
InitHost ==
    /\ current_setup = EmptyStr
    /\ lights = {}
    /\ collections = <<>>
    /\ root = <<>>
    /\ nImages = 0
    /\ panel = NoPanel
    /\ nExec = 0
    /\ tally = [n \in NamePool |-> [ok |-> 0, partial |-> 0]]
    /\ last = NoExec
    /\ scanned = NoScan

Init ==
    /\ dirState \in {"absent", "dir", "notdir"}
    /\ entries \in { es \in SUBSET SetupPool : dirState # "dir" => es = {} }
    /\ previews = {}
    /\ InitHost

InitPanel ==
    /\ dirState \in {"absent", "dir", "notdir"}
    /\ entries \in { es \in SUBSET SetupPool : dirState # "dir" => es = {} }
    /\ previews \in SUBSET PreviewPool
    /\ InitHost

InitScan ==
    /\ dirState \in {"absent", "dir", "notdir"}
    /\ entries \in { es \in SUBSET EntryPool :
                       /\ Cardinality(es) <= MaxEntries
                       /\ dirState # "dir" => es = {} }
    /\ previews = {}
    /\ InitHost

\* ---------------------------------------------------------------- actions
\* Bound values are written \E x \in {e} so that e is evaluated once.

\* one call of get_light_setups_data()
Scan ==
    \E listing \in Listings(entries), fault \in {"none", "makedirs", "listdir"} :
    \E scan \in {get_light_setups_data(dirState, listing, fault)} :
        /\ dirState' = scan.dir
        /\ scanned' = [called |-> TRUE, dirBefore |-> dirState,
                       raised |-> scan.raised, failed |-> scan.failed,
                       value |-> scan.value]
        /\ UNCHANGED <<entries, previews, current_setup, lights, collections,
                       root, nImages, panel, nExec, tally, last>>

\* the chooser (not part of this file) writes the scene property; the host
\* redraws the panel on a property write, so the old layout is gone
SetSelection(n) ==
    /\ n # current_setup
    /\ current_setup' = n
    /\ panel' = NoPanel
    /\ UNCHANGED <<dirState, entries, previews, lights, collections, root,
                   nImages, nExec, tally, last, scanned>>

\* LightManagerPanel.draw
Draw ==
    \E listing \in Listings(entries),
       fault \in {"none", "makedirs", "listdir", "image"} :
    \E scan \in {get_light_setups_data(dirState, listing, fault)} :
    \E idx \in {FindSetup(scan.value, current_setup)} :
    \E hasPreview \in {idx # 0 /\ scan.value[idx].preview_path[2] \in previews} :
        /\ dirState' = scan.dir
        /\ IF scan.raised \/ (hasPreview /\ fault = "image")
           THEN /\ panel' = [raised |-> TRUE, preview |-> "none",
                             applyShown |-> FALSE]
                /\ UNCHANGED nImages
           ELSE IF hasPreview
           THEN /\ nImages < MaxImages
                /\ nImages' = nImages + 1
                /\ panel' = [raised |-> FALSE, preview |-> "image",
                             applyShown |-> TRUE]
           ELSE /\ panel' = [raised |-> FALSE, preview |-> "No Preview",
                             applyShown |-> idx # 0]
                /\ UNCHANGED nImages
        /\ UNCHANGED <<entries, previews, current_setup, lights,
                       collections, root, nExec, tally, last, scanned>>

\* ApplyLightSetupOperator.execute with self.light_setup_name = name
Execute(via, name) ==
    /\ nExec < MaxApplies
    /\ \E listing \in Listings(entries), n \in 0..MaxLights :
       \E fault \in Faults(n) :
       \E scan \in {get_light_setups_data(dirState, listing, fault.at)} :
       \E sel \in {FindSetup(scan.value, name)} :
       \E m \in { IF scan.raised
                  THEN [doc |-> Doc, stage |-> "scan_raised",
                        loaded |-> <<>>, coll |-> 0]
                  ELSE IF sel = 0
                  THEN [doc |-> Doc, stage |-> "not_found",
                        loaded |-> <<>>, coll |-> 0]
                  ELSE Merge(Doc, nExec + 1, scan.value[sel], n, fault) } :
        /\ dirState' = scan.dir
        /\ lights' = m.doc.lights
        /\ collections' = m.doc.collections
        /\ root' = m.doc.root
        /\ nExec' = nExec + 1
        /\ tally' = IF m.stage = "done"
                    THEN [tally EXCEPT ![name].ok = @ + 1]
                    ELSE IF m.stage = "attach_failed"
                    THEN [tally EXCEPT ![name].partial = @ + 1]
                    ELSE tally
        /\ last' = [via |-> via, name |-> name, raised |-> scan.raised,
                    catalog |-> scan.value, selected |-> sel,
                    fault |-> fault, stage |-> m.stage,
                    loaded |-> m.loaded, coll |-> m.coll,
                    report |-> ReportOf(m.stage, name),
                    result |-> ResultOf(m.stage)]
        /\ UNCHANGED <<entries, previews, current_setup, nImages, panel,
                       scanned>>

\* the default of the operator's StringProperty light_setup_name
DefaultLightSetupName == EmptyStr

\* the panel's "Apply Light Setup" button: draw lays it out with
\* layout.operator(...) and sets no property on it, so the operator runs
\* with the default of light_setup_name
ApplyFromPanel ==
    /\ panel.applyShown
    /\ Execute("panel", DefaultLightSetupName)

\* the operator invoked with light_setup_name given by the caller
ApplyCall ==
    \E name \in NamePool : Execute("call", name)

Select == \E n \in NamePool : SetSelection(n)

\* the apply workflow: the operator run on any name
Next == ApplyCall

Spec == Init /\ [][Next]_vars

\* the panel: the chooser's write, the redraw and the Apply button
NextPanel ==
    \/ Select
    \/ Draw
    \/ ApplyFromPanel

SpecPanel == InitPanel /\ [][NextPanel]_vars

\* the scanner on its own, over the larger pool of directory entries
NextScan == Scan

SpecScan == InitScan /\ [][NextScan]_vars

\* ------------------------------------------------------------- properties
\* this step is one invocation of execute
ExecStep == nExec' = nExec + 1

\* the catalog of invocation x has an entry named as x asks
Matches(x) ==
    /\ ~x.raised
    /\ \E i \in 1..Len(x.catalog) : x.catalog[i].name = x.name

\* invocation x ended Failed: ERROR report and CANCELLED
EndedFailed(x) == x.report.level = "ERROR" /\ x.result = "CANCELLED"

\* invocation x ended Done: INFO report naming the setup and FINISHED
EndedDone(x) ==
    /\ x.report = [level |-> "INFO", text |-> "Applied light setup: ",
                   arg |-> x.name]
    /\ x.result = "FINISHED"

\* this step adds exactly one collection, named after the setup of
\* invocation x, under the root, holding objs; earlier collections and
\* the earlier children of the root stay as they were
AddsContainer(x, objs) ==
    /\ Len(collections') = Len(collections) + 1
    /\ SubSeq(collections', 1, Len(collections)) = collections
    /\ collections'[Len(collections')] =
           [name |-> x.name \o LightsSuffix, objects |-> objs]
    /\ root' = Append(root, Len(collections'))

\* the lights loaded by invocation x are new datablocks of this
\* invocation, read from the asset file of an entry named as x asks
LoadedFromEntry(x) ==
    \A j \in 1..Len(x.loaded) :
        /\ x.loaded[j].load = nExec'
        /\ \E i \in 1..Len(x.catalog) :
              /\ x.catalog[i].name = x.name
              /\ x.catalog[i].blend_path = x.loaded[j].path

\* C1: when the scan returns a catalog with no entry of the name asked
\* for (the empty catalog included), execute reports ERROR "Light setup
\* not found.", returns CANCELLED and leaves the document as it was: no
\* collection created, none linked under the root, no light loaded.
C1_NotFoundLeavesDocument ==
    [][ (/\ ExecStep
         /\ ~last'.raised
         /\ \A i \in 1..Len(last'.catalog) : last'.catalog[i].name # last'.name)
        => /\ last'.report = [level |-> "ERROR",
                              text |-> "Light setup not found.",
                              arg |-> EmptyStr]
           /\ last'.result = "CANCELLED"
           /\ lights' = lights
           /\ collections' = collections
           /\ root' = root ]_vars

\* an execute on a catalog that has entries, none of the name asked for
C1_Witness ==
    /\ nExec > 0
    /\ ~last.raised
    /\ Len(last.catalog) > 0
    /\ \A i \in 1..Len(last.catalog) : last.catalog[i].name # last.name
    /\ last.result = "CANCELLED"

\* C2 as stated: for a name that matches a catalog entry, when the load
\* and every attach (of the collection under the root, of each light into
\* the collection) succeed, execute adds exactly one collection named
\* name_lights under the root, holding exactly the lights loaded from the
\* entry's asset file, and ends with the INFO report and FINISHED.
C2_AsStated ==
    [][ (/\ ExecStep
         /\ Matches(last')
         /\ last'.fault.at \notin {"load", "link", "attach"})
        => /\ AddsContainer(last', last'.loaded)
           /\ LoadedFromEntry(last')
           /\ lights' = lights \cup Range(last'.loaded)
           /\ EndedDone(last') ]_vars

\* C2 amended: the same, when the load, the creation of the collection
\* and every attach succeed.
C2_AppliedAddsOneContainer ==
    [][ (/\ ExecStep
         /\ Matches(last')
         /\ last'.fault.at \notin {"load", "new", "link", "attach"})
        => /\ AddsContainer(last', last'.loaded)
           /\ LoadedFromEntry(last')
           /\ lights' = lights \cup Range(last'.loaded)
           /\ EndedDone(last') ]_vars

\* an execute that ended Done with a collection holding two loaded lights
C2_Witness ==
    /\ nExec > 0
    /\ last.result = "FINISHED"
    /\ Len(last.loaded) = 2
    /\ last.coll \in Range(root)
    /\ collections[last.coll].objects = last.loaded

\* C3: when Apply is triggered from the panel, the name execute looks up
\* is the value of the scene's current setup name at that moment.
C3_PanelAppliesSelection ==
    [][ (ExecStep /\ last'.via = "panel") => last'.name = current_setup ]_vars

\* C4: every invocation of execute ends in one of the two report states,
\* Done (INFO, FINISHED) or Failed (ERROR, CANCELLED); none ends with an
\* exception that leaves execute.
C4_AlwaysTerminalReport ==
    nExec > 0 =>
        \/ last.report.level = "INFO" /\ last.result = "FINISHED"
        \/ last.report.level = "ERROR" /\ last.result = "CANCELLED"

\* C5: get_light_setups_data never raises, and it returns the empty list
\* whenever a file-system call it made failed.
C5_ScanNeverRaises ==
    scanned.called =>
        /\ ~scanned.raised
        /\ scanned.failed => scanned.value = <<>>

\* the regular files of the directory whose name ends in .blend
AssetFiles ==
    { e \in entries : e.kind = "file" /\ EndsWith(e.filename, BlendExt) }

\* the entry C6 expects for the file X.blend
ExpectedEntry(filename) ==
    LET x == SubSeq(filename, 1, Len(filename) - Len(BlendExt))
    IN  [name |-> x,
         blend_path |-> <<LightSetupsDir, filename>>,
         preview_path |-> <<PreviewsDir, x \o JpgExt>>]

\* C6: when the directory exists and the listing succeeds, the result has
\* exactly one entry per regular file X.blend, with name X, asset path
\* light_setups/X.blend and preview path previews/X.jpg, and no entry for
\* anything else in the directory.
C6_OneEntryPerAssetFile ==
    (scanned.called /\ scanned.dirBefore = "dir" /\ ~scanned.failed) =>
        /\ Len(scanned.value) = Cardinality(AssetFiles)
        /\ \A e \in AssetFiles :
              \E i \in 1..Len(scanned.value) :
                  scanned.value[i] = ExpectedEntry(e.filename)

\* C7: the entries returned by one scan have pairwise distinct names.
C7_NamesDistinct ==
    scanned.called =>
        \A i, j \in 1..Len(scanned.value) :
            scanned.value[i].name = scanned.value[j].name => i = j

\* C8: when the load of a matching entry's asset file fails, execute ends
\* Failed (ERROR, CANCELLED) with no collection created and none linked
\* under the root.
C8_LoadFailureNoContainer ==
    [][ (ExecStep /\ Matches(last') /\ last'.fault.at = "load")
        => /\ EndedFailed(last')
           /\ collections' = collections
           /\ root' = root ]_vars

\* an execute that found its entry and whose load failed
C8_Witness ==
    /\ nExec > 0
    /\ last.selected # 0
    /\ last.fault.at = "load"
    /\ last.result = "CANCELLED"

\* the collections under the root that carry the name n_lights
RootNamed(n) ==
    { c \in Range(root) : collections[c].name = n \o LightsSuffix }

\* C9: execute never reuses, renames or removes an earlier collection:
\* every execute of name n that got as far as linking a collection under
\* the root (the ones that ended Done, and the ones that failed in the
\* attach loop) has added one more collection named n_lights, so after k
\* executes of n that ended Done, and no other, the root has k distinct
\* collections named n_lights.
C9_RepeatedApplyDuplicates ==
    /\ [](\A n \in NamePool :
              Cardinality(RootNamed(n)) = tally[n].ok + tally[n].partial)
    /\ [][ /\ Len(collections') >= Len(collections)
           /\ \A i \in 1..Len(collections) : collections'[i] = collections[i]
           /\ Len(root') >= Len(root)
           /\ SubSeq(root', 1, Len(root)) = root ]_vars

\* two executes of a ended Done and the root has two collections a_lights
C9_Witness ==
    /\ tally[<<"a">>].ok = 2
    /\ tally[<<"a">>].partial = 0
    /\ Cardinality(RootNamed(<<"a">>)) = 2

\* C10: when the link of the i-th loaded light raises, execute ends Failed
\* (ERROR, CANCELLED) and rolls nothing back: the new collection
\* name_lights stays under the root and holds exactly the first i-1
\* lights, in load order.
C10_AttachFailureNoRollback ==
    [][ (/\ ExecStep
         /\ Matches(last')
         /\ last'.fault.at = "attach"
         /\ last'.fault.i \in 1..Len(last'.loaded))
        => /\ EndedFailed(last')
           /\ AddsContainer(last', SubSeq(last'.loaded, 1, last'.fault.i - 1))
           /\ lights' = lights \cup Range(last'.loaded) ]_vars

\* an execute whose second link raised, leaving one light in the collection
C10_Witness ==
    /\ nExec > 0
    /\ last.fault = [at |-> "attach", i |-> 2]
    /\ Len(last.loaded) = 2
    /\ last.coll \in Range(root)
    /\ collections[last.coll].objects = <<last.loaded[1]>>
    /\ last.result = "CANCELLED"

====
